---- MODULE Spec2Model ----
(***************************************************************************)
(* Model of the citation template engine (CitationEngineService): the      *)
(* placeholder substitution, the recursive statement/addend evaluator with *)
(* its collapse rule, the balance linter and the label extractor; and of   *)
(* the lab component (LabComponent) that renders templates through it.     *)
(*                                                                         *)
(* A string is a sequence of one-character strings, <<"[", "a", "]">>, so  *)
(* that it can be scanned by index as the code does.  Indices are the      *)
(* code's 0-based indices; charAt converts.                                *)
(***************************************************************************)
EXTENDS Integers, Sequences, FiniteSets, TLC

VARIABLES
    template,    \* the template / expression / spec text handed to the engine
    attributes,  \* the positional field values handed to format
    parts,       \* the groups the caller composed the template from (<<>> for free text)
    op,          \* the engine operation that has run or is running ("none" before any)
    out,         \* the outcome of that operation
    scan,        \* the local variables of findStatements' loop on template
    foldPieces,  \* LabComponent.foldPieces: the substrings folded away
    unfolded,    \* the template text as it would be with nothing folded
    argNames,    \* LabComponent.argNames
    argValues,   \* LabComponent.argValues
    nullMask,    \* LabComponent.nullMask
    comboSelectMask,  \* LabComponent.comboSelectMask
    formatCalls  \* the calls of engine.format the component's last getter made

labVars ==
    <<foldPieces, unfolded, argNames, argValues, nullMask, comboSelectMask, formatCalls>>

vars == <<template, attributes, parts, op, out, scan, labVars>>

-----------------------------------------------------------------------------
(* Bounds of the model.                                                    *)

MaxLen == 6        \* longest free text handed to evaluate
MaxLit == 4        \* longest literal content wrapped as [{c}]
MaxGroups == 3     \* most groups in a composed region
MaxTplLen == 4     \* longest template handed to substitute
MaxAttrs == 2      \* most field values handed to substitute
MaxScanLen == 6    \* longest expression scanned step by step
MaxLintLen == 6    \* longest template handed to lint
MaxTokens == 4     \* most tokens in a spec text handed to extractBracketArgs
StackLimit == 3    \* most nested calls of evalExpr the component's call stack holds
MaxFoldLen == 5    \* longest template text typed before folding
MaxFolds == 2      \* most folds between two unfoldAll
MaxResultTokens == 3  \* most tokens in a template the component renders
MaxArgs == 2       \* most arguments of the component when it renders
MaxComboArgs == 2  \* most argument names when the combinations are listed
MaxPhTokens == 4   \* most tokens in a free template with placeholders
MaxParts == 2      \* most groups in a composed template with placeholders or before a tail
MaxMixed == 2      \* most placeholders given every combination of values

-----------------------------------------------------------------------------
(* Strings.                                                                *)

Strs(A, n) == UNION {[1..k -> A] : k \in 0..n}

RECURSIVE Join(_)
Join(ss) == IF ss = <<>> THEN <<>> ELSE Head(ss) \o Join(Tail(ss))

\* String.prototype.charAt: the empty string outside the text.
charAt(s, i) == IF i >= 0 /\ i < Len(s) THEN s[i + 1] ELSE ""

startsWith(s, c) == Len(s) > 0 /\ s[1] = c

endsWith(s, c) == Len(s) > 0 /\ s[Len(s)] = c

\* s.slice(1, -1)
sliceInner(s) == SubSeq(s, 2, Len(s) - 1)

\* The outcome of a call that returned v.  No statement of the engine throws.
Returned(v) == [raised |-> FALSE, value |-> v]

\* The outcome of a call that threw.
Raised == [raised |-> TRUE, value |-> <<>>]

-----------------------------------------------------------------------------
(* interpolate: template.replace(/%s/g, () => attributes[i++] ?? '')        *)

Null == <<"null">>
Undefined == <<"undefined">>

\* The replace callback of a faulty variant without the ?? '' fallback: a null or missing
\* value is written out as text.
AttributeAsText(attrs, i) ==
    IF i >= Len(attrs) THEN Undefined ELSE attrs[i + 1]

\* attributes[i] ?? '' (i 0-based).
attributeOr(attrs, i) ==
    IF i >= Len(attrs) THEN <<>>
    ELSE IF attrs[i + 1] \in {Null, Undefined} THEN <<>>
    ELSE attrs[i + 1]

\* The replace callback of a faulty variant that never advances i.
attributeOrFirst(attrs, i) == attributeOr(attrs, 0)

nextAttribute(attrs, i) == attributeOr(attrs, i)

RECURSIVE replaceFrom(_, _, _, _)
\* The global regex scan from 0-based position p, i matches replaced so far:
\* the text up to the next match is kept, the match is replaced and the scan
\* goes on after it.
replaceFrom(tpl, attrs, p, i) ==
    LET matches == {q \in p..(Len(tpl) - 2) :
                       charAt(tpl, q) = "%" /\ charAt(tpl, q + 1) = "s"}
        next == CHOOSE q \in matches : \A r \in matches : q <= r
    IN  IF matches = {} THEN SubSeq(tpl, p + 1, Len(tpl))
        ELSE SubSeq(tpl, p + 1, next)
                 \o nextAttribute(attrs, i)
                 \o replaceFrom(tpl, attrs, next + 2, i + 1)

interpolate(tpl, attrs) == replaceFrom(tpl, attrs, 0, 0)

-----------------------------------------------------------------------------
(* findStatements: one record for the loop's local variables.              *)

ScanInit(expression) ==
    [statements |-> <<>>, currentStatement |-> <<>>, currentAddend |-> <<>>,
     bracketCount |-> 0, braceCount |-> 0,
     currentSearch |-> charAt(expression, 0), i |-> 0]

\* The escape test at the head of the loop body.
IsEscape(expression, i) ==
    /\ charAt(expression, i) = "\\"
    /\ i < Len(expression) - 1
    /\ charAt(expression, i + 1) \in {"[", "]", "{", "}"}

\* The escape branch of a faulty variant that keeps the backslash whatever the delimiter.
EscapeKeepAlways(expression, sc) ==
    [sc EXCEPT !.currentAddend = @ \o <<"\\", charAt(expression, sc.i + 1)>>,
               !.i = @ + 2]

\* The escape branch: i++; currentAddend += next; continue (and the loop's i++).
escapeStep(expression, sc) ==
    [sc EXCEPT !.currentAddend =
                   (IF sc.currentSearch # "{" THEN Append(@, "\\") ELSE @)
                       \o <<charAt(expression, sc.i + 1)>>,
               !.i = @ + 2]

\* The test that the addend being scanned has ended.
atEnd(search, bracketCount, braceCount) ==
    \/ search = "[" /\ bracketCount = 0
    \/ search = "{" /\ braceCount = 0

\* The three branches taken when an addend has ended.
CloseAtEndOfText(sc, addend) ==
    [sc EXCEPT !.statements = Append(@, Append(sc.currentStatement, addend)),
               !.currentStatement = <<>>, !.currentAddend = <<>>,
               !.i = @ + 1]

\* The operator branch of a faulty variant that forgets the addend it has just scanned.
SkipBeforePlus(expression, sc, addend) ==
    [sc EXCEPT !.currentAddend = <<>>,
               !.currentSearch = charAt(expression, sc.i + 2),
               !.i = @ + 2]

CloseBeforePlus(expression, sc, addend) ==
    [sc EXCEPT !.currentStatement = Append(@, addend),
               !.currentAddend = <<>>,
               !.currentSearch = charAt(expression, sc.i + 2),
               !.i = @ + 2]

\* The no-operator branch of a faulty variant that keeps the statement open.
CloseKeepsStatement(expression, sc, addend) ==
    [sc EXCEPT !.currentStatement = Append(@, addend),
               !.currentAddend = <<>>,
               !.currentSearch = charAt(expression, sc.i + 1),
               !.i = @ + 1]

closeBeforeOther(expression, sc, addend) ==
    [sc EXCEPT !.statements = Append(@, Append(sc.currentStatement, addend)),
               !.currentStatement = <<>>, !.currentAddend = <<>>,
               !.currentSearch = charAt(expression, sc.i + 1),
               !.i = @ + 1]

\* The body for a character that is not an escape (and the loop's i++).
PlainStep(expression, sc) ==
    LET ch == charAt(expression, sc.i)
        addend == Append(sc.currentAddend, ch)
        bracketCount == sc.bracketCount + (IF ch = "[" THEN 1 ELSE 0)
                                        - (IF ch = "]" THEN 1 ELSE 0)
        braceCount == sc.braceCount + (IF ch = "{" THEN 1 ELSE 0)
                                    - (IF ch = "}" THEN 1 ELSE 0)
        counted == [sc EXCEPT !.bracketCount = bracketCount,
                              !.braceCount = braceCount]
    IN  IF atEnd(sc.currentSearch, bracketCount, braceCount)
        THEN IF sc.i = Len(expression) - 1
             THEN CloseAtEndOfText(counted, addend)
             ELSE IF charAt(expression, sc.i + 1) = "+"
                  THEN CloseBeforePlus(expression, counted, addend)
                  ELSE closeBeforeOther(expression, counted, addend)
        ELSE [counted EXCEPT !.currentAddend = addend, !.i = @ + 1]

\* One iteration of the for loop.
ScanStep(expression, sc) ==
    IF IsEscape(expression, sc.i)
    THEN escapeStep(expression, sc)
    ELSE PlainStep(expression, sc)

\* n iterations of the loop, or as many as are left before it ends; the
\* iterations are run half by half.
RECURSIVE RunSteps(_, _, _)
RunSteps(expression, sc, n) ==
    IF n = 0 \/ sc.i >= Len(expression) THEN sc
    ELSE IF n = 1 THEN ScanStep(expression, sc)
    ELSE RunSteps(expression, RunSteps(expression, sc, n \div 2), n - (n \div 2))

\* The whole loop: every iteration advances i, so Len(expression) of them end it.
RunScan(expression, sc) == RunSteps(expression, sc, Len(expression))

\* The result of a faulty variant that also returns the statement still open when the
\* loop ends.
FindStatementsFlushing(expression) ==
    LET sc == RunScan(expression, ScanInit(expression))
    IN  IF sc.currentStatement = <<>> THEN sc.statements
        ELSE Append(sc.statements, sc.currentStatement)

findStatements(expression) == RunScan(expression, ScanInit(expression)).statements

-----------------------------------------------------------------------------
(* evalExpr and the collapse rule.                                         *)

\* The test of a faulty variant that takes a literal group for an expression too.
IsGroupAddend(addend) ==
    \/ startsWith(addend, "[") /\ endsWith(addend, "]")
    \/ startsWith(addend, "{") /\ endsWith(addend, "}")

isExpressionAddend(addend) == startsWith(addend, "[") /\ endsWith(addend, "]")

isLiteralAddend(addend) ==
    ~isExpressionAddend(addend) /\ startsWith(addend, "{") /\ endsWith(addend, "}")

\* The collapse test of a faulty variant that collapses only when every expression is empty.
CollapsesWhenAllEmpty(expressions) ==
    /\ expressions # <<>>
    /\ \A k \in 1..Len(expressions) : expressions[k] = <<>>

\* The test of a faulty variant that finds an empty expression in every statement that
\* holds an expression.
AnyExpression(expressions) == expressions # <<>>

\* expressions.some((e) => e === '')
someEmpty(expressions) == \E k \in 1..Len(expressions) : expressions[k] = <<>>

collapses(expressions) == someEmpty(expressions)

RECURSIVE evalExpr(_)

\* The callback of statements.map: the value of one statement.
evalStatement(statement) ==
    LET inner == [k \in 1..Len(statement) |->
                     IF isExpressionAddend(statement[k])
                     THEN evalExpr(sliceInner(statement[k]))
                     ELSE <<>>]
        expressions == Join([k \in 1..Len(statement) |->
                     IF isExpressionAddend(statement[k]) THEN <<inner[k]>> ELSE <<>>])
        addendContents == Join([k \in 1..Len(statement) |->
                     IF isExpressionAddend(statement[k]) THEN <<inner[k]>>
                     ELSE IF isLiteralAddend(statement[k])
                          THEN <<sliceInner(statement[k])>>
                          ELSE <<>>])
    IN  IF collapses(expressions) THEN Join(expressions) ELSE Join(addendContents)

\* The test of the first character that decides between structure and passthrough
\* in a faulty variant that takes every text for structure.
StartsGroupAlways(c) == TRUE

\* c === '[' || c === '{', the negation of the passthrough test.
startsGroup(c) == c = "[" \/ c = "{"

\* The structured branch of a faulty variant that falls back to the text when the scan
\* finds no statement.
EvalStructuredOrText(expr) ==
    LET statements == findStatements(expr)
    IN  IF statements = <<>> THEN expr
        ELSE Join([k \in 1..Len(statements) |-> evalStatement(statements[k])])

\* statements.map(...).join('')
evalStructured(expr) ==
    LET statements == findStatements(expr)
    IN  Join([k \in 1..Len(statements) |-> evalStatement(statements[k])])

evalExpr(expr) ==
    IF expr = <<>> THEN expr
    ELSE IF ~startsGroup(charAt(expr, 0)) THEN expr
    ELSE evalStructured(expr)

format(tpl, attrs) == evalExpr(interpolate(tpl, attrs))

\* The invocations of evalExpr that evaluating expr makes, itself included:
\* for each the text it is given, its depth on the call stack and the text of
\* the invocation that made it.
RECURSIVE evalExprCalls(_, _, _)
evalExprCalls(expr, depth, caller) ==
    LET statements == IF expr = <<>> \/ ~startsGroup(charAt(expr, 0))
                      THEN <<>>
                      ELSE findStatements(expr)
    IN  {[text |-> expr, depth |-> depth, caller |-> caller]}
            \cup UNION {evalExprCalls(sliceInner(statements[j][k]), depth + 1, expr) :
                          <<j, k>> \in {jk \in (1..Len(statements)) \X (1..Len(expr)) :
                                          /\ jk[2] <= Len(statements[jk[1]])
                                          /\ isExpressionAddend(statements[jk[1]][jk[2]])}}

-----------------------------------------------------------------------------
(* lintTemplate.  An issue message is a record: `Unmatched ']' at 3` is    *)
(* [kind |-> "unmatched", ch |-> "]", idx |-> 3].                          *)

Unmatched(ch, i) == [kind |-> "unmatched", ch |-> ch, idx |-> i]
Unclosed == [kind |-> "unclosed", ch |-> "", idx |-> -1]
EmptyLiteralWarning == [kind |-> "emptyLiteral", ch |-> "", idx |-> -1]
DoubledPlusWarning == [kind |-> "doubledPlus", ch |-> "", idx |-> -1]

\* The characters the regex class \s matches, among those of the model.
IsSpace(c) == c \in {" ", "\t", "\n"}

LintInit == [stack |-> <<>>, issues |-> <<>>]

\* stack.pop() and the test on what it returned.
popFor(ls, opener, closer, i) ==
    LET empty == ls.stack = <<>>
        last == IF empty THEN [ch |-> "", idx |-> -1] ELSE ls.stack[Len(ls.stack)]
        rest == IF empty THEN <<>> ELSE SubSeq(ls.stack, 1, Len(ls.stack) - 1)
    IN  [stack |-> rest,
         issues |-> IF empty \/ last.ch # opener
                    THEN Append(ls.issues, Unmatched(closer, i))
                    ELSE ls.issues]

\* The closer's branch of a faulty variant that pops only a matching opener.
LintPopIfMatching(ls, ch, i) ==
    LET opener == IF ch = "]" THEN "[" ELSE "{"
        top == IF ls.stack = <<>> THEN "" ELSE ls.stack[Len(ls.stack)].ch
    IN  IF top = opener THEN popFor(ls, opener, ch, i)
        ELSE [ls EXCEPT !.issues = Append(@, Unmatched(ch, i))]

lintCloser(ls, ch, i) == popFor(ls, IF ch = "]" THEN "[" ELSE "{", ch, i)

\* The body of the scan loop for the character at i.
LintChar(ls, ch, i) ==
    IF ch = "[" \/ ch = "{" THEN [ls EXCEPT !.stack = Append(@, [ch |-> ch, idx |-> i])]
    ELSE IF ch = "]" \/ ch = "}" THEN lintCloser(ls, ch, i)
    ELSE ls

RECURSIVE LintScan(_, _, _)
LintScan(tpl, ls, i) ==
    IF i >= Len(tpl) THEN ls
    ELSE LintScan(tpl, LintChar(ls, charAt(tpl, i), i), i + 1)

\* regex.test(tpl) for /a\s*b/: a, any run of white space, b.
testSpaced(tpl, a, b) ==
    \E i \in 1..Len(tpl) : \E j \in (i + 1)..Len(tpl) :
        /\ tpl[i] = a
        /\ tpl[j] = b
        /\ \A k \in (i + 1)..(j - 1) : IsSpace(tpl[k])

\* The warning tests of a faulty variant whose regexes allow no white space.
TestAdjacent(tpl, a, b) == \E i \in 1..(Len(tpl) - 1) : tpl[i] = a /\ tpl[i + 1] = b

warningTest(tpl, a, b) == testSpaced(tpl, a, b)

lintTemplate(tpl) ==
    LET scanned == LintScan(tpl, LintInit, 0)
    IN  scanned.issues
            \o (IF scanned.stack # <<>> THEN <<Unclosed>> ELSE <<>>)
            \o (IF warningTest(tpl, "{", "}") THEN <<EmptyLiteralWarning>> ELSE <<>>)
            \o (IF warningTest(tpl, "+", "+") THEN <<DoubledPlusWarning>> ELSE <<>>)

-----------------------------------------------------------------------------
(* extractBracketArgs.                                                     *)

\* The 0-based index of the first bracket after position p, or -1.
nextBracket(s, p) ==
    LET js == {j \in (p + 1)..(Len(s) - 1) : charAt(s, j) \in {"[", "]"}}
    IN  IF js = {} THEN -1 ELSE CHOOSE j \in js : \A k \in js : j <= k

\* Whether /\[[^\[\]]*\]/ (a faulty regex, which takes an empty span) matches at p.
MatchesAtOrEmpty(s, p) ==
    /\ charAt(s, p) = "["
    /\ nextBracket(s, p) >= p + 1
    /\ charAt(s, nextBracket(s, p)) = "]"

\* Whether /\[[^\[\]]+\]/ matches at p: one or more non-bracket characters.
matchesAt(s, p) ==
    /\ charAt(s, p) = "["
    /\ nextBracket(s, p) >= p + 2
    /\ charAt(s, nextBracket(s, p)) = "]"

RECURSIVE matchAll(_, _)
\* spec.match(regex with g) from position p: the matched substrings, left to right.
matchAll(s, p) ==
    IF p >= Len(s) THEN <<>>
    ELSE IF matchesAt(s, p)
         THEN <<SubSeq(s, p + 1, nextBracket(s, p) + 1)>>
                  \o matchAll(s, nextBracket(s, p) + 1)
         ELSE matchAll(s, p + 1)

RECURSIVE trimStart(_)
trimStart(s) == IF s # <<>> /\ IsSpace(Head(s)) THEN trimStart(Tail(s)) ELSE s

RECURSIVE trimEnd(_)
trimEnd(s) ==
    IF s # <<>> /\ IsSpace(s[Len(s)]) THEN trimEnd(SubSeq(s, 1, Len(s) - 1)) ELSE s

\* String.prototype.trim
trim(s) == trimEnd(trimStart(s))

\* The dedup loop of a faulty variant that pushes every label.
UniqueKeepAll(labels, seen, k) == SubSeq(labels, k, Len(labels))

RECURSIVE uniqueFrom(_, _, _)
\* for (const l of labels) if (!seen.has(l)) { seen.add(l); out.push(l); }
uniqueFrom(labels, seen, k) ==
    IF k > Len(labels) THEN <<>>
    ELSE IF labels[k] \in seen THEN uniqueFrom(labels, seen, k + 1)
    ELSE <<labels[k]>> \o uniqueFrom(labels, seen \cup {labels[k]}, k + 1)

dedupe(labels, seen, k) == uniqueFrom(labels, seen, k)

extractBracketArgs(spec) ==
    LET matches == matchAll(spec, 0)
        labels == [k \in 1..Len(matches) |-> trim(sliceInner(matches[k]))]
    IN  dedupe(labels, {}, 1)

-----------------------------------------------------------------------------
(* The inputs the operations are applied to.                               *)

EvalChars == {"[", "]", "{", "}", "+", "\\", "a"}
LitChars == {"a", "[", "]", "+", "\\"}
SubstChars == {"%", "s", "a"}
FieldValues == {Null, Undefined, <<>>, <<"b">>, <<"%", "s">>}
LintChars == {"[", "]", "{", "}", "+", " ", "a"}
LabelTokens ==
    {<<"[">>, <<"]">>, <<" ">>, <<"a">>, <<"[", "a", "]">>, <<"[", "b", "]">>,
     <<"[", " ", "a", " ", "]">>, <<"[", "]">>}

\* A literal content c wrapped as the expression group [{c}].
WrapLiteral(c) == <<"[", "{">> \o c \o <<"}", "]">>

\* The truncated template [[a]+{b.
TruncatedExample == <<"[", "[", "a", "]", "+", "{", "b">>

\* A group of a composed template: an expression group around plain text
\* ("text"), a literal group ("lit"), or an expression group around one
\* statement of such groups ("expr").
Group(kind, text, body) == [kind |-> kind, text |-> text, body |-> body]

AtomGroups ==
    {Group("text", v, <<>>) : v \in {<<>>, <<"a">>, <<"b">>}}
        \cup {Group("lit", c, <<>>) : c \in {<<>>, <<"x">>, <<"[", "y", "]">>}}

NestedGroups ==
    {Group("expr", <<>>, b) :
        b \in {<<Group("text", <<"a">>, <<>>), Group("lit", <<"x">>, <<>>)>>,
               <<Group("text", <<>>, <<>>), Group("lit", <<"x">>, <<>>)>>,
               <<Group("lit", <<"a">>, <<>>), Group("lit", <<"b">>, <<>>)>>}}

Groups == AtomGroups \cup NestedGroups

RECURSIVE RenderStatement(_)

RenderGroup(g) ==
    IF g.kind = "text" THEN <<"[">> \o g.text \o <<"]">>
    ELSE IF g.kind = "lit" THEN <<"{">> \o g.text \o <<"}">>
    ELSE <<"[">> \o RenderStatement(g.body) \o <<"]">>

\* The groups of one statement, joined by the operator.
RenderStatement(gs) ==
    IF gs = <<>> THEN <<>>
    ELSE IF Len(gs) = 1 THEN RenderGroup(gs[1])
    ELSE RenderGroup(gs[1]) \o <<"+">> \o RenderStatement(Tail(gs))

\* A region: groups, each but the first either joined to the one before it by
\* the operator (plus) or written right after it.
Regions ==
    {r \in UNION {[1..n -> [group : Groups, plus : BOOLEAN]] : n \in 1..MaxGroups} :
        ~r[1].plus}

RenderRegion(r) ==
    Join([k \in 1..Len(r) |->
            (IF r[k].plus THEN <<"+">> ELSE <<>>) \o RenderGroup(r[k].group)])

\* The template [[%s]+{SEP}+[%s]].
CollapseShape(sep) ==
    <<"[", "[", "%", "s", "]", "+", "{">> \o sep \o <<"}", "+", "[", "%", "s", "]", "]">>

Separators == {<<>>, <<",">>, <<",", " ">>, <<"+">>}

\* The number of matches of /%s/g in a template.
matchCount(tpl) ==
    Cardinality({q \in 0..(Len(tpl) - 2) : charAt(tpl, q) = "%" /\ charAt(tpl, q + 1) = "s"})

\* The tokens free templates with placeholders are written with: delimiters, the
\* operator, the placeholder group [%s], stray text, the literal {,} and the
\* literal {\[} that holds an escaped bracket.
PhTokens ==
    {<<"[">>, <<"]">>, <<"+">>, <<"[", "%", "s", "]">>, <<"x">>,
     <<"{", ",", "}">>, <<"{", "\\", "[", "}">>}

\* The groups composed templates with placeholders are made of: the placeholder
\* group [%s], the literals {,} and {+}, and expression groups around them.
Ph == Group("text", <<"%", "s">>, <<>>)
Sep == Group("lit", <<",">>, <<>>)
PlusLit == Group("lit", <<"+">>, <<>>)

PhGroups ==
    {Ph, Sep}
        \cup {Group("expr", <<>>, b) :
                  b \in {<<Ph>>, <<Ph, Sep>>, <<Sep, Ph>>, <<Ph, Sep, Ph>>,
                         <<Ph, PlusLit, Group("expr", <<>>, <<Ph, Sep>>)>>}}

PhRegions ==
    {r \in UNION {[1..n -> [group : PhGroups, plus : BOOLEAN]] : n \in 1..MaxParts} :
        ~r[1].plus}

\* The default template of the component.
DefaultTemplate ==
    <<
      "[", "[", "[", "[", "[", "[", "%", "s", "]", "+",
      "{", " ", "}", "+", "[", "%", "s", "]", "]", "+",
      "{", ",", " ", "}", "+", "[", "{", "<", "i", ">",
      "}", "+", "[", "%", "s", "]", "+", "{", "<", "/",
      "i", ">", "}", "]", "]", "+", "{", " ", "}", "+",
      "[", "{", "(", "}", "+", "[", "[", "%", "s", "]",
      "+", "{", ":", " ", "}", "+", "[", "[", "%", "s",
      "]", "+", "{", ",", " ", "}", "+", "[", "%", "s",
      "]", "]", "]", "+", "{", ")", "}", "]", "]", "+",
      "{", ",", " ", "}", "+", "[", "%", "s", "]", "]",
      "+", "{", ";", " ", "}", "+", "[", "{", "d", "i",
      "g", "i", "t", "a", "l", " ", "i", "m", "a", "g",
      "e", "s", ",", " ", "}", "+", "[", "{", "<", "i",
      ">", "}", "+", "[", "%", "s", "]", "+", "{", "<",
      "/", "i", ">", "}", "]", "+", "{", " ", "(", "}",
      "+", "[", "[", "[", "%", "s", "]", "]", "+", "{",
      " ", ":", " ", "}", "+", "[", "{", "a", "c", "c",
      "e", "s", "s", "e", "d", " ", "}", "+", "[", "%",
      "s", "]", "]", "]", "+", "{", ")", "}", "]", "]",
      "]", "+", "{", ".", "}"
    >>

\* The value lists handed to format with a template of n placeholders: none,
\* the same value for every placeholder, and for few placeholders every
\* combination of an empty and two non-empty values.
UniformLists(n) == {[k \in 1..n |-> v] : v \in {Null, Undefined, <<>>, <<"b">>}}

MixedLists(n) ==
    IF n <= MaxMixed THEN [1..n -> {<<>>, <<"b">>, <<"c", "+">>}] ELSE {}

ValueLists(tpl) ==
    {<<>>} \cup UniformLists(matchCount(tpl)) \cup MixedLists(matchCount(tpl))

\* The texts written after a region: stray text, an operator with no complete
\* group after it, a last group that never closes.
StrayTails ==
    {<<"x">>, <<"x", "y", "z">>, <<"x", "[", "a", "]">>, <<"]">>,
     <<"}", "+", "[", "a", "]">>}

DanglingTails ==
    {<<"+">>, <<"+", "[", "b">>, <<"+", "{", "b">>, <<"+", "x">>,
     <<"+", "+", "[", "a", "]">>}

UnclosedTails == {<<"[", "b">>, <<"{", "b">>, <<"[", "[", "b", "]">>}

Tails == StrayTails \cup DanglingTails \cup UnclosedTails

\* The regions a tail is written after, the empty one included.
Heads == {<<>>} \cup {r \in Regions : Len(r) <= MaxParts}


-----------------------------------------------------------------------------
(* The lab component (LabComponent): the fold tokens of its template, its  *)
(* argument list, the rendered result and the combinations list.  It calls *)
(* the engine on a call stack of StackLimit frames of evalExpr.            *)

\* The visible token a folded selection is replaced by.
FoldToken == <<"[", "*", "]">>

\* text.replace(/\[\*\]/g, () => pieces[i++] ?? ''): a replacement is not
\* scanned again.
RECURSIVE replaceFolds(_, _, _, _)
replaceFolds(text, pieces, p, i) ==
    IF p > Len(text) THEN <<>>
    ELSE IF p + 2 <= Len(text) /\ SubSeq(text, p, p + 2) = FoldToken
         THEN (IF i < Len(pieces) THEN pieces[i + 1] ELSE <<>>)
                  \o replaceFolds(text, pieces, p + 3, i + 1)
         ELSE <<text[p]>> \o replaceFolds(text, pieces, p + 1, i)

expandFolds(text) == replaceFolds(text, foldPieces, 1, 0)

expandedTemplate == expandFolds(template)

\* The loop of isBalancedBracketedExpr from index i on, b and c its counters.
RECURSIVE balancedFrom(_, _, _, _)
balancedFrom(s, i, b, c) ==
    IF i >= Len(s) THEN b = 0 /\ c = 0
    ELSE LET ch == charAt(s, i)
             b2 == b + (IF ch = "[" THEN 1 ELSE 0) - (IF ch = "]" THEN 1 ELSE 0)
             c2 == c + (IF ch = "{" THEN 1 ELSE 0) - (IF ch = "}" THEN 1 ELSE 0)
         IN  IF ch = "\\" THEN balancedFrom(s, i + 2, b, c)
             ELSE IF b2 < 0 \/ c2 < 0 THEN FALSE
                  ELSE balancedFrom(s, i + 1, b2, c2)

isBalancedBracketedExpr(s) ==
    /\ s # <<>>
    /\ s[1] = "["
    /\ s[Len(s)] = "]"
    /\ balancedFrom(s, 0, 0, 0)

\* The text after executeEdits replaced the range from..to by the token.
replaceRange(text, from, to) ==
    SubSeq(text, 1, from - 1) \o FoldToken \o SubSeq(text, to + 1, Len(text))

\* Array.prototype.join
RECURSIVE joinWith(_, _)
joinWith(ss, sep) ==
    IF ss = <<>> THEN <<>>
    ELSE IF Len(ss) = 1 THEN ss[1]
    ELSE ss[1] \o sep \o joinWith(Tail(ss), sep)

\* String.prototype.split on a one-character separator, from position p on.
RECURSIVE splitFrom(_, _, _)
splitFrom(s, c, p) ==
    LET found == {q \in p..Len(s) : s[q] = c}
        next == CHOOSE q \in found : \A r \in found : q <= r
    IN  IF found = {} THEN <<SubSeq(s, p, Len(s))>>
        ELSE <<SubSeq(s, p, next - 1)>> \o splitFrom(s, c, next + 1)

\* argNames.join(',').split(',').map(s => s.trim()).filter(Boolean)
argsOf(names) ==
    LET pieces == splitFrom(joinWith(names, <<",">>), ",", 1)
        trimmed == [k \in 1..Len(pieces) |-> trim(pieces[k])]
    IN  SelectSeq(trimmed, LAMBDA s : s # <<>>)

args == argsOf(argNames)

\* mask[i] read as a condition: undefined past the end of the array.
maskAt(mask, i) == i <= Len(mask) /\ mask[i]

\* argValues[i]: undefined past the end of the array.
argValueAt(i) == IF i <= Len(argValues) THEN argValues[i] ELSE Undefined

preparedValues ==
    [i \in 1..Len(argValues) |-> IF maskAt(nullMask, i) THEN Null ELSE argValues[i]]

\* The message of the RangeError the runtime raises when the call stack is full.
StackOverflowMessage ==
    <<"M", "a", "x", "i", "m", "u", "m", " ", "c", "a", "l", "l", " ", "s",
      "t", "a", "c", "k", " ", "s", "i", "z", "e", " ", "e", "x", "c", "e",
      "e", "d", "e", "d">>

\* The outcome of a call that threw an error with this message.
RaisedWith(message) == [Raised EXCEPT !.value = message]

\* The deepest call stack of evalExpr while it evaluates expr.
callDepth(expr) ==
    LET depths == {c.depth : c \in evalExprCalls(expr, 1, expr)}
    IN  CHOOSE d \in depths : \A e \in depths : e <= d

\* this.engine.format(tpl, ...values) as the component's runtime runs it.
engineFormat(tpl, values) ==
    LET filled == interpolate(tpl, values)
    IN  IF callDepth(filled) > StackLimit
        THEN RaisedWith(StackOverflowMessage)
        ELSE Returned(evalExpr(filled))

EngineErrorPrefix ==
    <<"E", "n", "g", "i", "n", "e", " ", "e", "r", "r", "o", "r", ":", " ">>

\* The catch clause of a faulty variant that lets the failure through.
Rethrow(outcome) == outcome

\* try { ... } catch (e) { ... `Engine error: ${e?.message ?? e}` }
catchError(outcome) ==
    IF outcome.raised THEN Returned(EngineErrorPrefix \o outcome.value) ELSE outcome

\* value || ''
orEmpty(value) == IF value = <<>> THEN <<>> ELSE value

\* The outcome of the getter: what it returns, or the failure it lets through.
result ==
    LET caught == catchError(engineFormat(expandedTemplate, preparedValues))
    IN  IF caught.raised THEN caught ELSE Returned(orEmpty(caught.value))

\* Number to string, as a template literal writes it.
DigitChars == <<"0", "1", "2", "3", "4", "5", "6", "7", "8", "9">>

RECURSIVE digitsOf(_)
digitsOf(n) ==
    IF n < 10 THEN <<DigitChars[n + 1]>>
    ELSE digitsOf(n \div 10) \o <<DigitChars[(n % 10) + 1]>>

numberToString(n) == IF n < 0 THEN <<"-">> \o digitsOf(-n) ELSE digitsOf(n)

\* The shift count of << is taken modulo WordBits and its result is a signed
\* integer of WordBits bits.
WordBits == 32

\* 1 << k
shiftLeftOne(k) ==
    LET m == k % WordBits
    IN  IF m = WordBits - 1 THEN -(2 ^ (m - 1)) - 2 ^ (m - 1) ELSE 2 ^ m

\* mask & (1 << b) read as a condition, for a mask that is not negative.
hasBit(mask, b) ==
    LET m == b % WordBits
    IN  IF m = WordBits - 1 THEN FALSE ELSE (mask \div (2 ^ m)) % 2 = 1

\* The indices (from 1) of the arguments whose checkbox is set.
selectedIndices ==
    SelectSeq([i \in 1..Len(args) |-> i], LAMBDA i : maskAt(comboSelectMask, i))

\* for (let mask = 1; mask < (1 << n); mask++) ...
subsets(idxs) ==
    LET n == Len(idxs)
        limit == shiftLeftOne(n)
    IN  [mask \in 1..(limit - 1) |->
            Join([b \in 1..n |-> IF hasBit(mask, b - 1) THEN <<idxs[b]>> ELSE <<>>])]

comboCount ==
    LET k == Len(selectedIndices)
    IN  IF k # 0 THEN shiftLeftOne(k) - 1 ELSE 0

\* The guard on the number of rows.
ComboLimit == 4096

\* A character outside ASCII is written as its code point.
EmDash == "U+2014"
LessOrEqualSign == "U+2264"

\* `Too many combinations selected (${total}). Reduce selection to <= 4096.`
TooManyMessage(total) ==
    <<"T", "o", "o", " ", "m", "a", "n", "y", " ", "c", "o", "m", "b", "i",
      "n", "a", "t", "i", "o", "n", "s", " ", "s", "e", "l", "e", "c", "t",
      "e", "d", " ", "(">>
        \o numberToString(total) \o
    <<")", ".", " ", "R", "e", "d", "u", "c", "e", " ", "s", "e", "l", "e",
      "c", "t", "i", "o", "n", " ", "t", "o", " ">>
        \o <<LessOrEqualSign>> \o
    <<" ", "4", "0", "9", "6", ".">>

TooManyRow(total) ==
    [label |-> <<EmDash>>, inputs |-> <<>>, output |-> TooManyMessage(total)]

\* sub.includes(i) ? (this.nullMask[i] ? null : this.argValues[i]) : null
rowInputs(sub) ==
    [i \in 1..Len(args) |->
        IF \E j \in 1..Len(sub) : sub[j] = i
        THEN (IF maskAt(nullMask, i) THEN Null ELSE argValueAt(i))
        ELSE Null]

\* The subsets comboRows loops over: none when it returns before the loop.
rowSubsets ==
    LET idxs == selectedIndices
    IN  IF idxs = <<>> \/ shiftLeftOne(Len(idxs)) - 1 > ComboLimit
        THEN <<>>
        ELSE subsets(idxs)

\* The outcome of the try statement in the loop's body, for each subset.
rowOutcomes ==
    LET subs == rowSubsets
        expanded == expandedTemplate
    IN  [j \in 1..Len(subs) |-> catchError(engineFormat(expanded, rowInputs(subs[j])))]

comboRows ==
    LET idxs == selectedIndices
        total == shiftLeftOne(Len(idxs)) - 1
        subs == rowSubsets
        outcomes == rowOutcomes
        names == args
    IN  IF idxs = <<>> THEN <<>>
        ELSE IF total > ComboLimit THEN <<TooManyRow(total)>>
        ELSE [j \in 1..Len(subs) |->
                [label |-> joinWith([b \in 1..Len(subs[j]) |-> names[subs[j][b]]],
                                    <<",", " ">>),
                 inputs |-> rowInputs(subs[j]),
                 output |-> outcomes[j].value]]

\* The outcome of the getter: its rows, or the first failure a row lets through.
comboRowsOutcome ==
    LET outcomes == rowOutcomes
        failed == {j \in 1..Len(outcomes) : outcomes[j].raised}
    IN  IF failed = {} THEN Returned(comboRows)
        ELSE outcomes[CHOOSE j \in failed : \A h \in failed : j <= h]

-----------------------------------------------------------------------------
(* The state machine: an input is drawn, then one operation runs on it.    *)

\* The component holding this text, pieces and arguments, before any operation.
LabStart(t, pieces, names, values, nulls, selects) ==
    /\ template = t
    /\ attributes = <<>>
    /\ parts = <<>>
    /\ op = "none"
    /\ out = Returned(<<>>)
    /\ scan = ScanInit(t)
    /\ foldPieces = pieces
    /\ unfolded = replaceFolds(t, pieces, 1, 0)
    /\ argNames = names
    /\ argValues = values
    /\ nullMask = nulls
    /\ comboSelectMask = selects
    /\ formatCalls = 0

\* The engine handed t and a, the component's lists as its constructor leaves them.
Start(t, a, p) ==
    /\ template = t
    /\ attributes = a
    /\ parts = p
    /\ op = "none"
    /\ out = Returned(<<>>)
    /\ scan = ScanInit(t)
    /\ foldPieces = <<>>
    /\ unfolded = t
    /\ argNames = <<>>
    /\ argValues = <<>>
    /\ nullMask = <<>>
    /\ comboSelectMask = <<>>
    /\ formatCalls = 0

\* evaluate(text): the private evalExpr.
Evaluate ==
    /\ op = "none"
    /\ op' = "evaluate"
    /\ out' = Returned(evalExpr(template))
    /\ UNCHANGED <<template, attributes, parts, scan, labVars>>

Format ==
    /\ op = "none"
    /\ op' = "format"
    /\ out' = Returned(format(template, attributes))
    /\ UNCHANGED <<template, attributes, parts, scan, labVars>>

\* substitute(template, values): the private interpolate.
Substitute ==
    /\ op = "none"
    /\ op' = "substitute"
    /\ out' = Returned(interpolate(template, attributes))
    /\ UNCHANGED <<template, attributes, parts, scan, labVars>>

Lint ==
    /\ op = "none"
    /\ op' = "lint"
    /\ out' = Returned(lintTemplate(template))
    /\ UNCHANGED <<template, attributes, parts, scan, labVars>>

ExtractLabels ==
    /\ op = "none"
    /\ op' = "extractLabels"
    /\ out' = Returned(extractBracketArgs(template))
    /\ UNCHANGED <<template, attributes, parts, scan, labVars>>

\* One iteration of findStatements' loop on template, through the escape branch.
\* evalExpr scans only a text that starts with a group.
ScanEscape ==
    /\ op \in {"none", "findStatements"}
    /\ startsGroup(charAt(template, 0))
    /\ scan.i < Len(template)
    /\ IsEscape(template, scan.i)
    /\ op' = "findStatements"
    /\ scan' = ScanStep(template, scan)
    /\ UNCHANGED <<template, attributes, parts, out, labVars>>

\* One iteration through the body for an ordinary character.
ScanPlain ==
    /\ op \in {"none", "findStatements"}
    /\ startsGroup(charAt(template, 0))
    /\ scan.i < Len(template)
    /\ ~IsEscape(template, scan.i)
    /\ op' = "findStatements"
    /\ scan' = ScanStep(template, scan)
    /\ UNCHANGED <<template, attributes, parts, out, labVars>>

\* The getter result.
Result ==
    /\ op = "none"
    /\ op' = "result"
    /\ out' = result
    /\ formatCalls' = 1
    /\ UNCHANGED <<template, attributes, parts, scan, foldPieces, unfolded,
                   argNames, argValues, nullMask, comboSelectMask>>

\* The getter comboCount.
ComboCount ==
    /\ op = "none"
    /\ op' = "comboCount"
    /\ out' = Returned(comboCount)
    /\ formatCalls' = 0
    /\ UNCHANGED <<template, attributes, parts, scan, foldPieces, unfolded,
                   argNames, argValues, nullMask, comboSelectMask>>

\* The getter comboRows.
ComboRows ==
    /\ op = "none"
    /\ op' = "comboRows"
    /\ out' = comboRowsOutcome
    /\ formatCalls' = Len(rowSubsets)
    /\ UNCHANGED <<template, attributes, parts, scan, foldPieces, unfolded,
                   argNames, argValues, nullMask, comboSelectMask>>

\* foldSelection() with the characters from..to of the text selected; it
\* returns at once unless the selection is a balanced bracketed expression.
FoldSelection ==
    /\ op \in {"none", "foldSelection", "unfoldAll"}
    /\ Len(foldPieces) < MaxFolds
    /\ \E from \in 1..Len(template) : \E to \in from..Len(template) :
           LET selected == SubSeq(template, from, to)
           IN  /\ isBalancedBracketedExpr(selected)
               /\ foldPieces' = Append(foldPieces, selected)
               /\ template' = replaceRange(template, from, to)
    /\ op' = "foldSelection"
    /\ UNCHANGED <<attributes, parts, out, scan, unfolded,
                   argNames, argValues, nullMask, comboSelectMask, formatCalls>>

\* unfoldAll(): the text takes its expansion and the pieces are dropped.
UnfoldAll ==
    /\ op \in {"none", "foldSelection", "unfoldAll"}
    /\ template' = expandFolds(template)
    /\ foldPieces' = <<>>
    /\ unfolded' = template'
    /\ op' = "unfoldAll"
    /\ UNCHANGED <<attributes, parts, out, scan,
                   argNames, argValues, nullMask, comboSelectMask, formatCalls>>

\* evaluate and format on free text and on wrapped literals.
InitEvaluate ==
    \E t \in Strs(EvalChars, MaxLen)
                \cup {WrapLiteral(c) : c \in Strs(LitChars, MaxLit)}
                \cup {TruncatedExample} :
        Start(t, <<>>, <<>>)

NextEvaluate == Evaluate \/ Format

SpecEvaluate == InitEvaluate /\ [][NextEvaluate]_vars

\* evaluate and format on composed regions and on the collapse shape.
InitRegion ==
    \/ \E r \in Regions : Start(RenderRegion(r), <<>>, r)
    \/ \E sep \in Separators : \E a \in Strs({Null, Undefined, <<>>, <<"b">>, <<"c", "+">>}, 2) :
           Start(CollapseShape(sep), a, <<>>)

NextRegion == Evaluate \/ Format

SpecRegion == InitRegion /\ [][NextRegion]_vars

\* substitute and format on templates with placeholders.
InitSubstitute ==
    \E t \in Strs(SubstChars, MaxTplLen) : \E a \in Strs(FieldValues, MaxAttrs) :
        Start(t, a, <<>>)

NextSubstitute == Substitute \/ Format

SpecSubstitute == InitSubstitute /\ [][NextSubstitute]_vars

\* findStatements step by step, on the texts evalExpr hands it.
InitScan ==
    \E t \in Strs(EvalChars, MaxScanLen) :
        /\ t # <<>>
        /\ startsGroup(t[1])
        /\ Start(t, <<>>, <<>>)

NextScan == ScanEscape \/ ScanPlain

SpecScan == InitScan /\ [][NextScan]_vars

InitLint == \E t \in Strs(LintChars, MaxLintLen) : Start(t, <<>>, <<>>)

NextLint == Lint

SpecLint == InitLint /\ [][NextLint]_vars

InitLabels == \E ts \in Strs(LabelTokens, MaxTokens) : Start(Join(ts), <<>>, <<>>)

NextLabels == ExtractLabels

SpecLabels == InitLabels /\ [][NextLabels]_vars

\* The characters of a template text typed before folding.
FoldChars == {"[", "]", "a", "+"}

\* foldSelection and unfoldAll on a typed text with nothing folded yet.
InitFold ==
    \E t \in Strs(FoldChars, MaxFoldLen) : LabStart(t, <<>>, <<>>, <<>>, <<>>, <<>>)

NextFold == FoldSelection \/ UnfoldAll

SpecFold == InitFold /\ [][NextFold]_vars

\* The name addArg gives an argument left unnamed: `Arg${n + 1}`.
DefaultArgName(i) == <<"A", "r", "g">> \o numberToString(i)

DefaultArgNames(n) == [i \in 1..n |-> DefaultArgName(i)]

\* The text %s wrapped in d bracket pairs.
RECURSIVE Nested(_)
Nested(d) == IF d = 0 THEN <<"%", "s">> ELSE <<"[">> \o Nested(d - 1) \o <<"]">>

ResultTokens == {<<"[">>, <<"]">>, <<"%", "s">>, FoldToken}

ResultTemplates ==
    {Join(ts) : ts \in Strs(ResultTokens, MaxResultTokens)}
        \cup {Nested(d) : d \in 0..(StackLimit + 1)}

\* The pieces held when the component renders.
PieceLists == {<<>>, <<Nested(1)>>, <<Nested(StackLimit)>>}

ArgValues == {<<>>, <<"b">>}

\* result and comboRows on templates with placeholders and fold tokens, all
\* arguments selected.
InitResult ==
    \E t \in ResultTemplates : \E pieces \in PieceLists :
        \E n \in 0..MaxArgs : \E values \in [1..n -> ArgValues] :
            \E nulls \in [1..n -> BOOLEAN] :
                LabStart(t, pieces, DefaultArgNames(n), values, nulls, [i \in 1..n |-> TRUE])

NextResult == Result \/ ComboRows

SpecResult == InitResult /\ [][NextResult]_vars

\* Argument names as typed: a name with a comma makes two arguments.
ArgNameSet == {<<"a">>, <<"b", ",", "c">>}

\* Numbers of arguments, all selected, on either side of the guard of
\* comboRows and of the width of the shift.
WideCounts == {12, 13, 32, 33}

ComboTemplates == {Nested(1), CollapseShape(<<",">>), Nested(StackLimit)}

\* comboCount and comboRows on a few arguments with every choice of masks,
\* and on many arguments all selected.
InitCombos ==
    \/ \E t \in ComboTemplates : \E names \in Strs(ArgNameSet, MaxComboArgs) :
           \E values \in [1..Len(names) -> ArgValues] :
               \E nulls \in [1..Len(names) -> BOOLEAN] :
                   \E selects \in [1..Len(argsOf(names)) -> BOOLEAN] :
                       LabStart(t, <<>>, names, values, nulls, selects)
    \/ \E n \in WideCounts :
           LabStart(Nested(1), <<>>, DefaultArgNames(n), [i \in 1..n |-> <<"b">>],
                    [i \in 1..n |-> FALSE], [i \in 1..n |-> TRUE])

NextCombos == ComboCount \/ ComboRows

SpecCombos == InitCombos /\ [][NextCombos]_vars

\* format and substitute on templates with placeholders: free token
\* sequences, composed regions and the component's default template.
InitPlaceholders ==
    \/ \E ts \in Strs(PhTokens, MaxPhTokens) : \E a \in ValueLists(Join(ts)) :
           Start(Join(ts), a, <<>>)
    \/ \E r \in PhRegions : \E a \in ValueLists(RenderRegion(r)) :
           Start(RenderRegion(r), a, r)
    \/ \E a \in ValueLists(DefaultTemplate) : Start(DefaultTemplate, a, <<>>)

NextPlaceholders == Format \/ Substitute

SpecPlaceholders == InitPlaceholders /\ [][NextPlaceholders]_vars

\* evaluate and format on a region followed by a tail.
InitTail ==
    \E r \in Heads : \E tail \in Tails : Start(RenderRegion(r) \o tail, <<>>, r)

NextTail == Evaluate \/ Format

SpecTail == InitTail /\ [][NextTail]_vars

Init ==
    \/ InitEvaluate \/ InitRegion \/ InitSubstitute \/ InitLint \/ InitLabels
    \/ InitFold \/ InitResult \/ InitCombos \/ InitPlaceholders \/ InitTail

Next ==
    \/ Evaluate \/ Format \/ Substitute \/ Lint \/ ExtractLabels \/ ScanEscape \/ ScanPlain
    \/ Result \/ ComboCount \/ ComboRows \/ FoldSelection \/ UnfoldAll

Spec == Init /\ [][Next]_vars

-----------------------------------------------------------------------------
(* The value the collapse rule gives a composed group, read off the groups *)
(* themselves rather than off the rendered text.                           *)

IsExpressionGroup(g) == g.kind # "lit"

RECURSIVE StatementValue(_)

GroupValue(g) == IF g.kind = "expr" THEN StatementValue(g.body) ELSE g.text

StatementValue(gs) ==
    LET value == [k \in 1..Len(gs) |-> GroupValue(gs[k])]
        exprOnly == [k \in 1..Len(gs) |->
                        IF IsExpressionGroup(gs[k]) THEN value[k] ELSE <<>>]
    IN  IF \E k \in 1..Len(gs) : IsExpressionGroup(gs[k]) /\ value[k] = <<>>
        THEN Join(exprOnly)
        ELSE Join(value)

\* A region whose groups are all joined by the operator: one statement.
OneStatement(r) == r # <<>> /\ \A k \in 2..Len(r) : r[k].plus

RegionGroups(r) == [k \in 1..Len(r) |-> r[k].group]

\* The value a field value renders as: the empty string for null or absent.
ValueAt(attrs, k) ==
    IF k > Len(attrs) \/ attrs[k] \in {Null, Undefined} THEN <<>> ELSE attrs[k]

Evaluated == op \in {"evaluate", "format"}

(* C1: a statement evaluates to the concatenation of its expression        *)
(* addends' values alone when one of them is the empty string, and to the  *)
(* concatenation of expression values and literal contents otherwise;      *)
(* format("[[%s]+{SEP}+[%s]]", v1, v2) is v1 v2 when either is empty and   *)
(* v1 SEP v2 otherwise; evaluate("[{a}+{b}]") = "ab".                      *)
C1_CollapseRule ==
    /\ (Evaluated /\ OneStatement(parts))
           => out = Returned(StatementValue(RegionGroups(parts)))
    /\ \A sep \in Separators :
           (op = "format" /\ template = CollapseShape(sep))
               => LET v1 == ValueAt(attributes, 1)
                      v2 == ValueAt(attributes, 2)
                  IN  out = Returned(IF v1 = <<>> \/ v2 = <<>>
                                     THEN v1 \o v2
                                     ELSE v1 \o sep \o v2)
    /\ (Evaluated /\ template = <<"[", "{", "a", "}", "+", "{", "b", "}", "]">>)
           => out = Returned(<<"a", "b">>)

\* A statement of three addends has collapsed: [a]+{x}+[] gave "a".
C1_Witness ==
    /\ op = "evaluate"
    /\ template = <<"[", "a", "]", "+", "{", "x", "}", "+", "[", "]">>
    /\ out = Returned(<<"a">>)

(* C2: the content of a literal group is opaque: for every brace-free c,   *)
(* evaluate("[{" c "}]") = c, also when c holds an unbalanced bracket.     *)
C2_LiteralOpacity ==
    \A c \in Strs(LitChars, MaxLit) :
        (op = "evaluate" /\ template = WrapLiteral(c)) => out = Returned(c)

(* C3: evaluate returns a text that is empty or does not start with '[' or *)
(* '{' unchanged, whatever follows; format("", []) is "".                  *)
C3_Passthrough ==
    /\ (op = "evaluate" /\ (template = <<>> \/ template[1] \notin {"[", "{"}))
           => out = Returned(template)
    /\ (op = "format" /\ template = <<>> /\ attributes = <<>>)
           => out = Returned(<<>>)

\* A text with structure after its first character came back unchanged.
C3_Witness ==
    /\ op = "evaluate"
    /\ template = <<"a", "[", "{", "+", "\\">>
    /\ out = Returned(template)

-----------------------------------------------------------------------------
(* The placeholders of a template, read off the text by position.          *)

\* The 1-based positions at which a %s token starts (a token cannot overlap
\* another).
TokenStarts(t) == {p \in 1..(Len(t) - 1) : t[p] = "%" /\ t[p + 1] = "s"}

NthOf(S, k) == CHOOSE p \in S : Cardinality({q \in S : q < p}) = k - 1

\* The template with its k-th token replaced by the k-th value, the text
\* between the tokens kept.
Substituted(t, attrs) ==
    LET toks == TokenStarts(t)
        n == Cardinality(toks)
        from(k) == IF k = 1 THEN 1 ELSE NthOf(toks, k - 1) + 2
        to(k) == IF k = n + 1 THEN Len(t) ELSE NthOf(toks, k) - 1
    IN  Join([k \in 1..(n + 1) |->
                SubSeq(t, from(k), to(k))
                    \o (IF k <= n THEN ValueAt(attrs, k) ELSE <<>>)])

(* C4: substitute replaces the k-th %s, left to right, by the k-th field   *)
(* value, by the empty string when that value is null, absent or past the  *)
(* end of the list; values past the last placeholder are ignored and every *)
(* other character of the template is kept, in order.                      *)
C4_Substitute == op = "substitute" => out = Returned(Substituted(template, attributes))

\* Two placeholders took two values, the first of them itself a %s, not rescanned.
C4_Witness ==
    /\ op = "substitute"
    /\ template = <<"%", "s", "%", "s">>
    /\ attributes = <<<<"%", "s">>, <<"b">>>>
    /\ out = Returned(<<"%", "s", "b">>)

-----------------------------------------------------------------------------
(* Truncated spans.                                                        *)

\* A delimiter the scan counts: one not written after a backslash.
Counted(t, p, c) == t[p] = c /\ (p = 1 \/ t[p - 1] # "\\")

\* Openers less closers among the first p characters.
Depth(t, p, opener, closer) ==
    Cardinality({q \in 1..p : Counted(t, q, opener)})
        - Cardinality({q \in 1..p : Counted(t, q, closer)})

\* No bracket is written inside a literal.
LiteralsBracketFree(t) ==
    \A p \in 2..Len(t) :
        (Counted(t, p, "[") \/ Counted(t, p, "]")) => Depth(t, p - 1, "{", "}") <= 0

\* The template's first character opens a group that is never closed.
FirstGroupUnclosed(t) ==
    /\ t # <<>>
    /\ \/ /\ t[1] = "["
          /\ LiteralsBracketFree(t)
          /\ \A p \in 1..Len(t) : Depth(t, p, "[", "]") >= 1
       \/ /\ t[1] = "{"
          /\ \A p \in 1..Len(t) : Depth(t, p, "{", "}") >= 1

(* C5 as stated: evaluate and format raise an error on a template with an  *)
(* opening '[' or '{' whose closing delimiter is missing.                  *)
C5_TruncatedRaises == (Evaluated /\ FirstGroupUnclosed(template)) => out.raised

(* C5, amended: evaluate and format do not raise on a truncated span, they *)
(* return a string; when the group opened by the template's first          *)
(* character is the one never closed, that string is empty.                *)
C5_TruncatedReturnsEmpty ==
    /\ Evaluated => ~out.raised
    /\ (Evaluated /\ FirstGroupUnclosed(template)) => out = Returned(<<>>)

\* [[a]+{b was evaluated and gave the empty string.
C5_Witness ==
    /\ op = "evaluate"
    /\ template = TruncatedExample
    /\ FirstGroupUnclosed(template)
    /\ out = Returned(<<>>)

-----------------------------------------------------------------------------
(* Regions of several statements.                                          *)

\* The positions of a region at which a statement starts.
StatementStarts(r) == {k \in 1..Len(r) : ~r[k].plus}

\* The concatenation of the statements' values, each collapsed on its own.
RegionValue(r) ==
    LET starts == StatementStarts(r)
        n == Cardinality(starts)
        last(j) == IF j = n THEN Len(r) ELSE NthOf(starts, j + 1) - 1
    IN  Join([j \in 1..n |->
                StatementValue(SubSeq(RegionGroups(r), NthOf(starts, j), last(j)))])

(* C6: an addend followed by a character other than '+' ends its statement *)
(* and the next group starts a new one; the region's value is the          *)
(* concatenation of the statements' values in order, the collapse rule     *)
(* applied to each statement on its own.                                   *)
C6_StatementSplitting ==
    (Evaluated /\ parts # <<>> /\ ~OneStatement(parts))
        => out = Returned(RegionValue(parts))

\* [[a]+{x}][] gave "ax": the empty second statement did not suppress {x}.
C6_Witness ==
    /\ op = "evaluate"
    /\ template = <<"[", "[", "a", "]", "+", "{", "x", "}", "]", "[", "]">>
    /\ Len(parts) = 2
    /\ out = Returned(<<"a", "x">>)

-----------------------------------------------------------------------------
(* Escapes in findStatements.                                              *)

\* The loop stands at a backslash that is followed by a bracket or a brace.
AtEscape ==
    /\ scan.i + 2 <= Len(template)
    /\ template[scan.i + 1] = "\\"
    /\ template[scan.i + 2] \in {"[", "]", "{", "}"}

(* C7: a backslash followed by '[', ']', '{' or '}' changes neither        *)
(* balance counter and ends no addend; the addend text gains the backslash *)
(* and the escaped character when the active delimiter is the bracket, and *)
(* the escaped character alone when it is the brace.                       *)
C7_EscapeHandling ==
    [][AtEscape =>
          /\ scan'.bracketCount = scan.bracketCount
          /\ scan'.braceCount = scan.braceCount
          /\ scan'.statements = scan.statements
          /\ scan'.currentStatement = scan.currentStatement
          /\ scan'.currentSearch = scan.currentSearch
          /\ scan.currentSearch = "["
                => scan'.currentAddend
                       = scan.currentAddend \o <<"\\", template[scan.i + 2]>>
          /\ scan.currentSearch = "{"
                => scan'.currentAddend = scan.currentAddend \o <<template[scan.i + 2]>>
      ]_vars

\* Inside a literal, \} was taken: the brace is in the addend, the backslash is
\* not, and the literal is still open.
C7_Witness ==
    /\ scan.currentSearch = "{"
    /\ scan.i = 3
    /\ SubSeq(template, 1, 3) = <<"{", "\\", "}">>
    /\ scan.currentAddend = <<"{", "}">>
    /\ scan.braceCount = 1

-----------------------------------------------------------------------------
(* The linter's rules, read off the text.                                  *)

RECURSIVE OpenBefore(_, _)
\* The openers still open after the first n characters: an opener is added,
\* a closer removes the last one, whichever it is.
OpenBefore(t, n) ==
    IF n = 0 THEN <<>>
    ELSE LET open == OpenBefore(t, n - 1)
         IN  IF t[n] \in {"[", "{"} THEN Append(open, t[n])
             ELSE IF t[n] \in {"]", "}"} /\ open # <<>>
                  THEN SubSeq(open, 1, Len(open) - 1)
                  ELSE open

OpenerOf(c) == IF c = "]" THEN "[" ELSE "{"

\* The closer at 1-based position p closes nothing or the wrong opener.
IsUnmatched(t, p) ==
    /\ t[p] \in {"]", "}"}
    /\ LET open == OpenBefore(t, p - 1)
       IN  open = <<>> \/ open[Len(open)] # OpenerOf(t[p])

StructuralIssues(t) ==
    Join([p \in 1..Len(t) |->
            IF IsUnmatched(t, p) THEN <<Unmatched(t[p], p - 1)>> ELSE <<>>])
        \o (IF OpenBefore(t, Len(t)) # <<>> THEN <<Unclosed>> ELSE <<>>)

IsStructural(issue) == issue.kind \in {"unmatched", "unclosed"}

(* C8: with one stack for both kinds of opener, each closer pops the stack *)
(* and yields one Unmatched issue with its own index iff the stack was     *)
(* empty or the popped opener is of the other kind; one Unclosed issue     *)
(* follows iff openers remain.  lint("[a]") has no structural issue,       *)
(* lint("[a") only the unclosed one, lint("a]") only Unmatched ']' at 1.   *)
C8_LintStructure ==
    op = "lint" =>
        /\ SelectSeq(out.value, IsStructural) = StructuralIssues(template)
        /\ template = <<"[", "a", "]">> => SelectSeq(out.value, IsStructural) = <<>>
        /\ template = <<"[", "a">> => SelectSeq(out.value, IsStructural) = <<Unclosed>>
        /\ template = <<"a", "]">>
              => SelectSeq(out.value, IsStructural) = <<Unmatched("]", 1)>>

\* [}] : the brace popped the bracket, so both closers are unmatched and nothing
\* is left open.
C8_Witness ==
    /\ op = "lint"
    /\ template = <<"[", "}", "]">>
    /\ out.value = <<Unmatched("}", 1), Unmatched("]", 2)>>

\* a directly followed by b.
Adjacent(t, a, b) == \E p \in 1..(Len(t) - 1) : t[p] = a /\ t[p + 1] = b

\* a followed by b with nothing but white space between them.
SpacedPair(t, a, b) ==
    \E p \in 1..Len(t) : \E q \in (p + 1)..Len(t) :
        /\ t[p] = a
        /\ t[q] = b
        /\ {k \in (p + 1)..(q - 1) : ~IsSpace(t[k])} = {}

Issues == {out.value[k] : k \in 1..Len(out.value)}

(* C9 as stated: lint returns no issue for a balanced template that holds  *)
(* neither {} nor ++, and the two warnings are emitted whenever the text   *)
(* holds {} or ++.                                                         *)
C9_WarningFreeAdjacent ==
    op = "lint" =>
        /\ (/\ StructuralIssues(template) = <<>>
            /\ ~Adjacent(template, "{", "}")
            /\ ~Adjacent(template, "+", "+")) => out.value = <<>>
        /\ Adjacent(template, "{", "}") => EmptyLiteralWarning \in Issues
        /\ Adjacent(template, "+", "+") => DoubledPlusWarning \in Issues

(* C9, amended: lint returns no issue for a balanced template that holds   *)
(* neither '{' and '}' nor two '+' with nothing or only white space        *)
(* between them; each warning is emitted exactly when the text holds its   *)
(* pair, at any depth.                                                     *)
C9_WarningFreeSpaced ==
    op = "lint" =>
        /\ (/\ StructuralIssues(template) = <<>>
            /\ ~SpacedPair(template, "{", "}")
            /\ ~SpacedPair(template, "+", "+")) => out.value = <<>>
        /\ SpacedPair(template, "{", "}") <=> EmptyLiteralWarning \in Issues
        /\ SpacedPair(template, "+", "+") <=> DoubledPlusWarning \in Issues

\* The balanced, warning-free [{a}] has no issue.
C9_Witness ==
    /\ op = "lint"
    /\ template = <<"[", "{", "a", "}", "]">>
    /\ out.value = <<>>

-----------------------------------------------------------------------------
(* Labels, read off the spec text.                                         *)

\* The spans [ ... ] with at least min characters inside and no bracket among
\* them, as pairs of 1-based positions.
Spans(t, min) ==
    {sp \in (1..Len(t)) \X (1..Len(t)) :
        /\ t[sp[1]] = "["
        /\ t[sp[2]] = "]"
        /\ sp[2] - sp[1] - 1 >= min
        /\ \A k \in (sp[1] + 1)..(sp[2] - 1) : t[k] \notin {"[", "]"}}

\* s without its leading and trailing white space.
Trimmed(s) ==
    LET inked == {k \in 1..Len(s) : ~IsSpace(s[k])}
    IN  IF inked = {} THEN <<>>
        ELSE SubSeq(s, CHOOSE k \in inked : \A j \in inked : k <= j,
                       CHOOSE k \in inked : \A j \in inked : k >= j)

LabelOf(t, sp) == Trimmed(SubSeq(t, sp[1] + 1, sp[2] - 1))

\* Where a label is first seen among the spans.
FirstSeen(t, spans, label) ==
    LET at == {sp[1] : sp \in {x \in spans : LabelOf(t, x) = label}}
    IN  CHOOSE p \in at : \A q \in at : p <= q

\* labels holds each span's label once, in the order of first occurrence.
IsLabelList(labels, t, spans) ==
    /\ {labels[k] : k \in 1..Len(labels)} = {LabelOf(t, sp) : sp \in spans}
    /\ \A a \in 1..Len(labels) : \A b \in (a + 1)..Len(labels) :
           /\ labels[a] # labels[b]
           /\ FirstSeen(t, spans, labels[a]) < FirstSeen(t, spans, labels[b])

(* C10 as stated: extractLabels returns the trimmed inner texts of the     *)
(* bracket spans that hold no bracket, each once, by first occurrence.     *)
C10_LabelsOfAllSpans ==
    op = "extractLabels" => IsLabelList(out.value, template, Spans(template, 0))

(* C10, amended: extractLabels returns the trimmed inner texts of the      *)
(* bracket spans that hold at least one character and no bracket, each     *)
(* once, by first occurrence; the empty span [] yields no label.           *)
C10_LabelsOfNonEmptySpans ==
    op = "extractLabels" => IsLabelList(out.value, template, Spans(template, 1))

\* [a][b][a] gave a, b: the second [a] added nothing.
C10_Witness ==
    /\ op = "extractLabels"
    /\ template = <<"[", "a", "]", "[", "b", "]", "[", "a", "]">>
    /\ out.value = <<<<"a">>, <<"b">>>>

-----------------------------------------------------------------------------
(* Well-formed templates and the recursion of evalExpr.                    *)

\* One character of the nesting check: st holds the openers still open and
\* whether every closer so far closed the opener last opened.
NestStep(t, st, p) ==
    IF ~st.ok THEN st
    ELSE IF Counted(t, p, "[") \/ Counted(t, p, "{")
         THEN [st EXCEPT !.stack = Append(@, t[p])]
         ELSE IF Counted(t, p, "]") \/ Counted(t, p, "}")
              THEN IF st.stack # <<>>
                      /\ st.stack[Len(st.stack)] = (IF t[p] = "]" THEN "[" ELSE "{")
                   THEN [st EXCEPT !.stack = SubSeq(@, 1, Len(@) - 1)]
                   ELSE [st EXCEPT !.ok = FALSE]
              ELSE st

\* The check over the n characters from position p on, half by half.
RECURSIVE NestRun(_, _, _, _)
NestRun(t, st, p, n) ==
    IF n = 0 \/ ~st.ok THEN st
    ELSE IF n = 1 THEN NestStep(t, st, p)
    ELSE NestRun(t, NestRun(t, st, p, n \div 2), p + (n \div 2), n - (n \div 2))

\* The delimiters the scan counts are properly nested and all closed.
WellFormed(t) ==
    LET st == NestRun(t, [stack |-> <<>>, ok |-> TRUE], 1, Len(t))
    IN  st.ok /\ st.stack = <<>>

\* The largest number of brackets open at once.
BracketDepth(t) ==
    LET depths == {Depth(t, p, "[", "]") : p \in 0..Len(t)}
    IN  CHOOSE d \in depths : \A e \in depths : e <= d

\* inner is what is left of a bracket span of outer when its two delimiters
\* are stripped.
StrippedSpanOf(inner, outer) ==
    \E p \in 1..(Len(outer) - Len(inner) - 1) :
        SubSeq(outer, p, p + Len(inner) + 1) = <<"[">> \o inner \o <<"]">>

(* C11: on a template whose brackets and braces are balanced and properly  *)
(* nested, evaluate returns a string; every recursive call of the          *)
(* evaluation is made on a span of its caller's text with the outer        *)
(* delimiters stripped, so on a strictly shorter text, and no call is      *)
(* deeper than the template's bracket nesting depth plus one.              *)
C11_TotalOverWellFormed ==
    (Evaluated /\ WellFormed(template)) =>
        /\ ~out.raised
        /\ out.value \in Seq(STRING)
        /\ \A c \in evalExprCalls(template, 1, template) :
               /\ c.depth > 1 => /\ StrippedSpanOf(c.text, c.caller)
                                 /\ Len(c.text) < Len(c.caller)
               /\ c.depth <= BracketDepth(template) + 1

\* [[[]]] was evaluated through four nested calls, the last on the empty text.
C11_Witness ==
    /\ op = "evaluate"
    /\ template = <<"[", "[", "[", "]", "]", "]">>
    /\ WellFormed(template)
    /\ BracketDepth(template) = 3
    /\ [text |-> <<>>, depth |-> 4, caller |-> <<"[", "]">>]
           \in evalExprCalls(template, 1, template)
    /\ out = Returned(<<>>)

-----------------------------------------------------------------------------
(* The error boundary of the component.                                    *)

\* What the component shows for an outcome of format.
Displayed(outcome) ==
    IF outcome.raised THEN EngineErrorPrefix \o outcome.value ELSE outcome.value

(* C12: the result the component shows never propagates a failure of       *)
(* format: when format raises with message m the result is "Engine error: "*)
(* followed by m, and when format returns a string the result is that      *)
(* string; the same holds for the output of every row of the combinations  *)
(* list, for the inputs of that row.                                       *)
C12_ErrorBoundary ==
    /\ op = "result" =>
           /\ ~out.raised
           /\ out.value = Displayed(engineFormat(expandedTemplate, preparedValues))
    /\ op = "comboRows" =>
           /\ ~out.raised
           /\ formatCalls > 0 =>
                  \A j \in 1..Len(out.value) :
                      out.value[j].output =
                          Displayed(engineFormat(expandedTemplate, out.value[j].inputs))

\* A folded template nested deeper than the call stack was rendered: format
\* raised and the result shown is the engine error with the runtime's message.
C12_Witness ==
    /\ op = "result"
    /\ template = FoldToken
    /\ foldPieces = <<Nested(StackLimit)>>
    /\ engineFormat(expandedTemplate, preparedValues) = RaisedWith(StackOverflowMessage)
    /\ out = Returned(EngineErrorPrefix \o StackOverflowMessage)

-----------------------------------------------------------------------------
(* Folding.                                                                *)

(* C13: after any sequence of foldSelection, each replacing a selected     *)
(* balanced bracket group anywhere in the text by the token [*], and of    *)
(* unfoldAll, the N-th entry of foldPieces is the substring the N-th token *)
(* in text order replaced, so that expandedTemplate equals the template    *)
(* text as it would be with nothing folded.                                *)
C13_FoldCorrespondence == expandedTemplate = unfolded

-----------------------------------------------------------------------------
(* The combinations list.                                                  *)

\* The arguments whose checkbox is set.
SelectedSet == {i \in 1..Len(args) : maskAt(comboSelectMask, i)}

\* c = 2^k - 1, without computing 2^k.
RECURSIVE IsTwoToTheKMinusOne(_, _)
IsTwoToTheKMinusOne(c, k) ==
    IF k = 0 THEN c = 0
    ELSE c > 0 /\ c % 2 = 1 /\ IsTwoToTheKMinusOne(c \div 2, k - 1)

\* 2^k <= limit, without computing 2^k.
RECURSIVE TwoToTheKAtMost(_, _)
TwoToTheKAtMost(k, limit) ==
    IF k = 0 THEN 1 <= limit
    ELSE limit >= 2 /\ TwoToTheKAtMost(k - 1, limit \div 2)

\* The members of a set of indices, in increasing order.
Ascending(S) == [j \in 1..Cardinality(S) |-> NthOf(S, j)]

\* The label and the inputs of the row of the subset S.
RowOf(S) ==
    [label |-> joinWith([j \in 1..Cardinality(S) |-> args[Ascending(S)[j]]], <<",", " ">>),
     inputs |-> [i \in 1..Len(args) |->
                    IF i \in S /\ ~maskAt(nullMask, i) THEN argValueAt(i) ELSE Null]]

\* The rows are those of the sets in Sets, one row for each set.
OneRowForEach(rows, Sets) ==
    LET shown == [j \in 1..Len(rows) |->
                     [label |-> rows[j].label, inputs |-> rows[j].inputs]]
        wanted == {RowOf(S) : S \in Sets}
    IN  /\ Len(rows) = Cardinality(Sets)
        /\ {shown[j] : j \in 1..Len(rows)} = wanted
        /\ Cardinality(wanted) < Cardinality(Sets) =>
               \A r \in wanted :
                   Cardinality({j \in 1..Len(rows) : shown[j] = r})
                       = Cardinality({S \in Sets : RowOf(S) = r})

(* C14: with k arguments selected comboCount is 2^k - 1 (0 when k = 0);    *)
(* when 2^k - 1 <= 4096 comboRows holds exactly one row for each non-empty *)
(* subset of the selected arguments, none twice, whose inputs are null for *)
(* every argument outside the subset and for every null-masked argument    *)
(* and the argument's current value otherwise; when 2^k - 1 > 4096         *)
(* comboRows is the single row 'Too many combinations' and format is not   *)
(* called.                                                                 *)
C14_CombinationsEnumeration ==
    LET k == Cardinality(SelectedSet)
    IN  /\ op = "comboCount" => IsTwoToTheKMinusOne(out.value, k)
        /\ (op = "comboRows" /\ ~out.raised) =>
               IF TwoToTheKAtMost(k, ComboLimit + 1)
               THEN OneRowForEach(out.value, (SUBSET SelectedSet) \ {{}})
               ELSE /\ Len(out.value) = 1
                    /\ out.value[1].label = <<EmDash>>
                    /\ out.value[1].inputs = <<>>
                    /\ formatCalls = 0

-----------------------------------------------------------------------------
(* Templates with placeholders: what a template is made of, read off its   *)
(* text, and the values its placeholders take.                             *)

\* The number of placeholders of a template.
CountPlaceholders(t) == Cardinality(TokenStarts(t))

\* A field value holds no bracket, brace or backslash.
CleanValue(v) ==
    v \in {Null, Undefined} \/ \A k \in 1..Len(v) : v[k] \notin {"[", "]", "{", "}", "\\"}

CleanValues(attrs) == \A k \in 1..Len(attrs) : CleanValue(attrs[k])

\* The non-empty values the placeholders of t take, in placeholder order.
SubstitutedValues(t, attrs) ==
    Join([k \in 1..CountPlaceholders(t) |->
            IF ValueAt(attrs, k) = <<>> THEN <<>> ELSE <<ValueAt(attrs, k)>>])

\* The values occur in s from position p on, one after the other without
\* overlap: each is looked for at its leftmost place after the one before it.
RECURSIVE EmbedsFrom(_, _, _)
EmbedsFrom(vals, s, p) ==
    IF vals = <<>> THEN TRUE
    ELSE LET v == Head(vals)
             hits == {q \in p..(Len(s) - Len(v) + 1) : SubSeq(s, q, q + Len(v) - 1) = v}
         IN  /\ hits # {}
             /\ EmbedsFrom(Tail(vals), s,
                           (CHOOSE q \in hits : \A r \in hits : q <= r) + Len(v))

\* Every placeholder is written as [%s], outside every literal.
PlaceholdersAlone(t) ==
    \A p \in TokenStarts(t) :
        /\ p > 1 /\ t[p - 1] = "["
        /\ p + 2 <= Len(t) /\ t[p + 2] = "]"
        /\ Depth(t, p, "{", "}") = 0

\* The template is made of groups only: outside the literals every character
\* is a delimiter, an operator between the end of a group and the start of
\* the next, or part of a placeholder written as [%s]; a literal holds no
\* delimiter, backslash or placeholder.
OnlyGroups(t) ==
    /\ WellFormed(t)
    /\ \A p \in 1..Len(t) :
           LET c == t[p]
               at(q) == charAt(t, q - 1)
           IN  IF Depth(t, p - 1, "{", "}") = 0
               THEN \/ c \in {"[", "]", "{", "}"}
                    \/ c = "+" /\ at(p - 1) \in {"]", "}"} /\ at(p + 1) \in {"[", "{"}
                    \/ c = "%" /\ at(p + 1) = "s" /\ at(p - 1) = "[" /\ at(p + 2) = "]"
                    \/ c = "s" /\ at(p - 1) = "%" /\ at(p - 2) = "[" /\ at(p + 1) = "]"
               ELSE \/ c = "}"
                    \/ /\ c \notin {"[", "]", "{", "}", "\\"}
                       /\ ~(c = "%" /\ at(p + 1) = "s")

(* C15 as stated: for a template whose brackets and braces are balanced    *)
(* and properly nested and whose placeholders are each written as [%s],    *)
(* and field values free of brackets, braces and backslashes, the output   *)
(* of format holds every non-empty substituted value, in placeholder       *)
(* order, as disjoint contiguous substrings.                               *)
C15_NoValueLost ==
    (/\ op = "format"
     /\ WellFormed(template)
     /\ PlaceholdersAlone(template)
     /\ CleanValues(attributes))
        => EmbedsFrom(SubstitutedValues(template, attributes), out.value, 1)

(* C15, amended: the same for a template made of groups only (no text      *)
(* outside the groups, every operator followed by a group): a collapse     *)
(* suppresses literal text, never a value.                                 *)
C15_NoValueLostInGroups ==
    (/\ op = "format"
     /\ OnlyGroups(template)
     /\ CleanValues(attributes))
        => EmbedsFrom(SubstitutedValues(template, attributes), out.value, 1)

\* [[%s]+{,}+[%s]] with "b" and "": the statement collapsed, the literal went
\* and the value stayed.
C15_Witness ==
    /\ op = "format"
    /\ template = CollapseShape(<<",">>)
    /\ OnlyGroups(template)
    /\ parts # <<>>
    /\ attributes = <<<<"b">>, <<>>>>
    /\ out = Returned(<<"b">>)

-----------------------------------------------------------------------------
(* Total collapse.                                                         *)

\* Every field value is empty, null or absent (an empty list leaves every
\* placeholder without a value).
AllEmpty(attrs) == \A k \in 1..Len(attrs) : attrs[k] \in {Null, Undefined, <<>>}

\* At every nesting level every statement holds an expression addend, and
\* the expression groups that hold no further group are all [%s].
EveryStatementHasExpression(t) ==
    \A c \in evalExprCalls(t, 0, <<>>) :
        IF c.text # <<>> /\ startsGroup(c.text[1])
        THEN LET statements == findStatements(c.text)
             IN  \A j \in 1..Len(statements) :
                     \E k \in 1..Len(statements[j]) : isExpressionAddend(statements[j][k])
        ELSE c.depth >= 1 => c.text = <<"%", "s">>

BeginsWithGroup(t) == t # <<>> /\ startsGroup(t[1])

\* format of the default template of the component, every value empty.
DefaultCollapses ==
    (op = "format" /\ template = DefaultTemplate /\ AllEmpty(attributes))
        => out = Returned(<<>>)

-----------------------------------------------------------------------------
(* Nothing collapses when every placeholder has a value.                   *)

\* The character at p is a delimiter of a group (a bracket outside the
\* literals, or the brace that opens or closes a literal) or an operator
\* written between the end of a group and the start of the next.
IsStructure(f, p) ==
    LET inLiteral == Depth(f, p - 1, "{", "}")
    IN  \/ inLiteral = 0 /\ (Counted(f, p, "[") \/ Counted(f, p, "]") \/ Counted(f, p, "{"))
        \/ inLiteral = 1 /\ Counted(f, p, "}")
        \/ /\ inLiteral = 0 /\ f[p] = "+"
           /\ p > 1 /\ f[p - 1] \in {"]", "}"} /\ Counted(f, p - 1, f[p - 1])
           /\ p < Len(f) /\ f[p + 1] \in {"[", "{"}

\* The text with its structural characters removed.
Stripped(f) == Join([p \in 1..Len(f) |-> IF IsStructure(f, p) THEN <<>> ELSE <<f[p]>>])

\* Every expression group holds a placeholder group [%s] (or is one).
GroupsHoldPlaceholder(t) ==
    \A p \in 1..Len(t) :
        (Counted(t, p, "[") /\ Depth(t, p - 1, "{", "}") = 0)
            => \E e \in p..Len(t) :
                   /\ Depth(t, e, "[", "]") = Depth(t, p - 1, "[", "]")
                   /\ \A d \in p..(e - 1) : Depth(t, d, "[", "]") > Depth(t, p - 1, "[", "]")
                   /\ \E q \in p..(e - 3) : SubSeq(t, q, q + 3) = <<"[", "%", "s", "]">>

\* Every placeholder takes a non-empty value free of brackets, braces and
\* backslashes.
AllSupplied(t, attrs) ==
    /\ CountPlaceholders(t) >= 1
    /\ \A k \in 1..CountPlaceholders(t) :
           k <= Len(attrs) /\ ValueAt(attrs, k) # <<>> /\ CleanValue(attrs[k])

\* No expression group of the text evaluates to the empty string, so no
\* statement collapses.
NoStatementCollapses(f) ==
    \A c \in evalExprCalls(f, 0, <<>>) : c.depth >= 1 => evalExpr(c.text) # <<>>

(* C17 as stated: for a template whose brackets and braces are balanced    *)
(* and properly nested and whose expression groups each hold a placeholder *)
(* group [%s], when every placeholder takes a non-empty value free of      *)
(* brackets, braces and backslashes no statement collapses and the output  *)
(* of format is the substituted template with its structural brackets and  *)
(* braces and the operators between addends removed.                       *)
C17_NothingCollapses ==
    (/\ op = "format"
     /\ WellFormed(template)
     /\ GroupsHoldPlaceholder(template)
     /\ AllSupplied(template, attributes))
        => /\ out = Returned(Stripped(Substituted(template, attributes)))
           /\ NoStatementCollapses(Substituted(template, attributes))

(* C17, amended: the same for a template made of groups only, whose        *)
(* literals hold no escaped delimiter: text outside the groups is dropped  *)
(* and the backslash of an escape inside a literal is not written out.     *)
C17_NothingCollapsesInGroups ==
    (/\ op = "format"
     /\ OnlyGroups(template)
     /\ GroupsHoldPlaceholder(template)
     /\ AllSupplied(template, attributes))
        => /\ out = Returned(Stripped(Substituted(template, attributes)))
           /\ NoStatementCollapses(Substituted(template, attributes))

\* [[%s]+{+}+[[%s]+{,}]] with "b" and "c+" gave "b+c+,": both literals are
\* in the output and the operator inside the value and the literal stayed.
C17_Witness ==
    /\ op = "format"
    /\ template = RenderGroup(Group("expr", <<>>,
                      <<Ph, PlusLit, Group("expr", <<>>, <<Ph, Sep>>)>>))
    /\ OnlyGroups(template) /\ GroupsHoldPlaceholder(template)
    /\ attributes = <<<<"b">>, <<"c", "+">>>>
    /\ out = Returned(<<"b", "+", "c", "+", ",">>)

-----------------------------------------------------------------------------
(* Text after the last finalized statement.                                *)

\* What is written after the rendered region.
TailOf == SubSeq(template, Len(RenderRegion(parts)) + 1, Len(template))

\* The region without its last statement.
AllButLastStatement(r) ==
    IF r = <<>> THEN <<>>
    ELSE LET starts == StatementStarts(r)
             last == CHOOSE k \in starts : \A j \in starts : j <= k
         IN  SubSeq(r, 1, last - 1)

\* The three examples: [a]+ and [a]+[b give "", [a]xyz gives "a".
TailExamples ==
    /\ (Evaluated /\ template = <<"[", "a", "]", "+">>) => out.value = <<>>
    /\ (Evaluated /\ template = <<"[", "a", "]", "+", "[", "b">>) => out.value = <<>>
    /\ (Evaluated /\ template = <<"[", "a", "]", "x", "y", "z">>) => out.value = <<"a">>

(* C18 as stated: evaluate never fails; stray text after a region and a     *)
(* last group that never closes add nothing to the value of the region;    *)
(* an operator with no complete group after it leaves the region's last    *)
(* statement open, and the output is the value of the statements before    *)
(* it; whatever precedes the tail, nothing included.                       *)
C18_OnlyFinalized ==
    /\ Evaluated => ~out.raised
    /\ (Evaluated /\ TailOf \in StrayTails \cup UnclosedTails)
           => out.value = RegionValue(parts)
    /\ (Evaluated /\ TailOf \in DanglingTails)
           => out.value = RegionValue(AllButLastStatement(parts))
    /\ TailExamples

(* C18, amended: the same when the text begins with a group; a text that   *)
(* begins with another character is returned whole.                        *)
C18_OnlyFinalizedAfterGroup ==
    /\ Evaluated => ~out.raised
    /\ (Evaluated /\ parts # <<>> /\ TailOf \in StrayTails \cup UnclosedTails)
           => out.value = RegionValue(parts)
    /\ (Evaluated /\ parts # <<>> /\ TailOf \in DanglingTails)
           => out.value = RegionValue(AllButLastStatement(parts))
    /\ (Evaluated /\ parts = <<>> /\ ~startsGroup(charAt(template, 0)))
           => out.value = template
    /\ TailExamples

\* [a][b]+[b gave "a": the statement of [b] was still open at the end of the
\* text and [b never closed.
C18_Witness ==
    /\ op = "evaluate"
    /\ template = <<"[", "a", "]", "[", "b", "]", "+", "[", "b">>
    /\ Len(parts) = 2
    /\ TailOf \in DanglingTails
    /\ ~out.raised
    /\ out.value = <<"a">>

====
